---- MODULE Spec2Model ----
(***************************************************************************)
(* Model of the todo-list client: TodoListComponent (list view: fetch,     *)
(* filter, search, paginate, delete, open dialog) and TodoModalComponent   *)
(* (edit dialog: form, save, cancel), with the remote calls of ApiService  *)
(* as requests in flight whose responses arrive in any order.              *)
(*                                                                         *)
(* Strings that the code trims, lower-cases or searches are sequences of   *)
(* one-character strings. Optional values (undefined / null in the code)   *)
(* are sequences of length 0 or 1. Dates are instants on an integer clock; *)
(* a calendar day is TicksPerDay consecutive instants.                     *)
(***************************************************************************)
EXTENDS Integers, Sequences, FiniteSets

(* ---------------------------------------------------------------------- *)
(* Bounds of the model                                                     *)
(* ---------------------------------------------------------------------- *)
MaxTodos == 31
MaxNow == 2
TicksPerDay == 2
MaxInFlight == 2

(* ---------------------------------------------------------------------- *)
(* Program constants                                                       *)
(* ---------------------------------------------------------------------- *)
PerPage == 15

ViewFilters == {"all", "priority", "today", "completed"}

(* ---------------------------------------------------------------------- *)
(* Helpers for optional values, numbers and strings                        *)
(* ---------------------------------------------------------------------- *)
Absent == << >>

Some(v) == << v >>

Min(a, b) == IF a < b THEN a ELSE b

Max(a, b) == IF a > b THEN a ELSE b

\* Math.ceil(a / b) for a >= 0, b > 0
Ceil(a, b) == (a + b - 1) \div b

\* Array.prototype.slice(a, b): a negative index counts from the end
Slice(s, a, b) ==
    LET from == IF a < 0 THEN Max(Len(s) + a, 0) ELSE Min(a, Len(s))
        to == IF b < 0 THEN Max(Len(s) + b, 0) ELSE Min(b, Len(s))
    IN  IF from < to THEN SubSeq(s, from + 1, to) ELSE << >>

\* Array.prototype.includes on a label array
SeqIncludes(s, v) == \E i \in 1..Len(s) : s[i] = v

LowerChar(c) ==
    CASE c = "J" -> "j"
      [] c = "E" -> "e"
      [] c = "T" -> "t"
      [] OTHER -> c

\* String.prototype.toLowerCase
ToLowerCase(s) == [i \in 1..Len(s) |-> LowerChar(s[i])]

RECURSIVE TrimStart(_)
TrimStart(s) ==
    IF s # << >> /\ Head(s) = " " THEN TrimStart(Tail(s)) ELSE s

RECURSIVE TrimEnd(_)
TrimEnd(s) ==
    IF s # << >> /\ s[Len(s)] = " " THEN TrimEnd(SubSeq(s, 1, Len(s) - 1)) ELSE s

\* String.prototype.trim
Trim(s) == TrimEnd(TrimStart(s))

\* String.prototype.includes: needle occurs in hay as a contiguous substring
StrIncludes(hay, needle) ==
    \E i \in 0..(Len(hay) - Len(needle)) :
        SubSeq(hay, i + 1, i + Len(needle)) = needle

(* ---------------------------------------------------------------------- *)
(* Tasks as the server returns them                                        *)
(* ---------------------------------------------------------------------- *)
TodoTitre(i) ==
    CASE i % 4 = 0 -> << "J", "e", "t" >>
      [] i % 4 = 1 -> << "T", "e" >>
      [] i % 4 = 2 -> << "t", " ", "j" >>
      [] OTHER     -> << >>

TodoPerson(i) ==
    CASE i % 5 = 0 -> Absent
      [] i % 5 = 1 -> Some([id |-> 1, name |-> Some(<< "J", "E", "a" >>)])
      [] i % 5 = 2 -> Some([id |-> 2, name |-> Absent])
      [] OTHER     -> Some([id |-> 3, name |-> Some(<< "e", "t" >>)])

TodoPriority(i) ==
    CASE i % 7 = 3 -> "Facile"
      [] i % 7 = 5 -> "Moyen"
      [] i % 7 = 6 -> ""
      [] OTHER     -> "Difficile"

TodoLabels(i) ==
    CASE i % 6 = 0 -> << >>
      [] i % 6 = 5 -> << "CSS" >>
      [] i % 6 = 4 -> << "CSS", "HTML" >>
      [] OTHER     -> << "HTML" >>

TodoStart(i) == IF i % 9 = 0 THEN Absent ELSE Some(i % 3)

TodoEnd(i) == IF i % 6 = 0 THEN Absent ELSE Some(IF i % 5 = 0 THEN 1 ELSE 0)

Todo(i) ==
    [id |-> i, titre |-> TodoTitre(i), person |-> TodoPerson(i),
     startDate |-> TodoStart(i), endDate |-> TodoEnd(i),
     priority |-> TodoPriority(i), labels |-> TodoLabels(i)]

\* a response body of n tasks
Todos(n) == [i \in 1..n |-> Todo(i)]

(* ---------------------------------------------------------------------- *)
(* State                                                                   *)
(* ---------------------------------------------------------------------- *)
VARIABLES
    \* TodoListComponent fields
    viewFilter, searchTerm, total, isLoading, page, pagedTodos,
    allTodos, filteredTodos, currentPriority, currentLabel,
    \* lifecycle and environment of the list view
    initialized,      \* ngOnInit has run
    now,              \* the clock read by Date.now() and new Date()
    latestPending,    \* the most recently issued getTodos request is in flight
    olderPending,     \* number of getTodos requests in flight issued before that one
    latestResponse,   \* body returned to the most recently issued getTodos, once it arrived
    deletePending,    \* number of deleteTodo requests in flight
    lastToggle,       \* << value, label before >> when the last step was setLabelFilter(value)
    \* the dialog opened last (dialogs are modal: one at a time) and its
    \* TodoModalComponent
    dialogMode,       \* data.mode, "none" before the first dialog
    dialogResult,     \* value the dialog was closed with, Absent while it is open
    form,             \* value of the required controls
    isSaving,
    savePending,      \* number of create/update requests of this dialog in flight
    personsPending,   \* the getPersons request of this dialog is in flight
    orphanSaves       \* create/update requests in flight of dialogs opened earlier

listVars == << viewFilter, searchTerm, total, page, pagedTodos,
               allTodos, filteredTodos, currentPriority, currentLabel >>

filterVars == << viewFilter, searchTerm, currentPriority, currentLabel >>

fetchVars == << isLoading, latestPending, olderPending, latestResponse >>

dialogVars == << dialogMode, dialogResult, form, isSaving, savePending,
                 personsPending, orphanSaves >>

vars == << listVars, fetchVars, deletePending, dialogVars, initialized, now, lastToggle >>

\* number of getTodos requests in flight
FetchesInFlight == olderPending + (IF latestPending THEN 1 ELSE 0)

\* number of requests in flight whose response can still change the list
InFlight == FetchesInFlight + deletePending + savePending + orphanSaves

(* ---------------------------------------------------------------------- *)
(* TodoListComponent: pure parts                                           *)
(* ---------------------------------------------------------------------- *)
\* the calendar day (year, month, date) of an instant
Day(t) == t \div TicksPerDay

isCompleted(todo, t) ==
    IF todo.endDate = Absent THEN FALSE ELSE todo.endDate[1] < t

isToday(dateValue, t) ==
    IF dateValue = Absent THEN FALSE ELSE Day(dateValue[1]) = Day(t)

matchesViewFilter(todo, view, t) ==
    CASE view = "priority"  -> todo.priority = "Difficile"
      [] view = "today"     -> isToday(todo.startDate, t)
      [] view = "completed" -> isCompleted(todo, t)
      [] OTHER              -> TRUE

\* matchesSearch with the person's name left out of the search
matchesSearchTitleOnly(todo, term) == StrIncludes(ToLowerCase(todo.titre), term)

\* the callback of the search filter, for an already trimmed and lower-cased term
matchesSearch(todo, term) ==
    LET title == ToLowerCase(todo.titre)
        person == IF todo.person = Absent \/ todo.person[1].name = Absent
                  THEN << >>
                  ELSE ToLowerCase(todo.person[1].name[1])
    IN  StrIncludes(title, term) \/ StrIncludes(person, term)

\* the filtered array applyFilters computes, the four filters applied in turn
FilterTodos(todos, view, prio, label, search, t) ==
    LET byView(todo) == matchesViewFilter(todo, view, t)
        byPriority(todo) == todo.priority = prio
        byLabel(todo) == SeqIncludes(todo.labels, label)
        term == ToLowerCase(Trim(search))
        bySearch(todo) == matchesSearch(todo, term)
        f1 == SelectSeq(todos, byView)
        f2 == IF prio # "" THEN SelectSeq(f1, byPriority) ELSE f1
        f3 == IF label # "" THEN SelectSeq(f2, byLabel) ELSE f2
    IN  IF Trim(search) # << >> THEN SelectSeq(f3, bySearch) ELSE f3

\* ClampPage without the clamp to the last page
ClampPageUnclamped(p, n) == p

\* the page updatePagedTodos settles on
ClampPage(p, n) == Min(p, Max(1, Ceil(n, PerPage)))

\* PageSlice with the end index one short
PageSliceShort(todos, p) == Slice(todos, (p - 1) * PerPage, (p - 1) * PerPage + PerPage - 1)

\* the slice updatePagedTodos displays
PageSlice(todos, p) == Slice(todos, (p - 1) * PerPage, (p - 1) * PerPage + PerPage)

\* ToggleLabel that sets the value without toggling
ToggleLabelAlwaysSets(current, value) == value

\* this.currentLabel === value ? '' : value
ToggleLabel(current, value) == IF current = value THEN "" ELSE value

\* updatePagedTodos(), called with this.page = p
updatePagedTodos(p) ==
    /\ page' = ClampPage(p, total')
    /\ pagedTodos' = PageSlice(filteredTodos', page')

\* applyFilters(), called with this.page = p
applyFilters(p) ==
    /\ filteredTodos' = FilterTodos(allTodos', viewFilter', currentPriority',
                                    currentLabel', searchTerm', now)
    /\ total' = Len(filteredTodos')
    /\ updatePagedTodos(p)

\* loadTodos(): sets the flag and sends one getTodos request
loadTodos ==
    /\ isLoading' = TRUE
    /\ olderPending' = FetchesInFlight
    /\ latestPending' = TRUE
    /\ latestResponse' = Absent

\* buildForm(): the required controls and their initial values
buildForm ==
    [titre |-> << >>, personId |-> Absent, startDate |-> Absent,
     priority |-> "Moyen", touched |-> FALSE]

(* ---------------------------------------------------------------------- *)
(* Init: the list view as constructed, nothing requested, no dialog yet    *)
(* ---------------------------------------------------------------------- *)
Init ==
    /\ viewFilter = "all"
    /\ searchTerm = << >>
    /\ total = 0
    /\ isLoading = FALSE
    /\ page = 1
    /\ pagedTodos = << >>
    /\ allTodos = << >>
    /\ filteredTodos = << >>
    /\ currentPriority = ""
    /\ currentLabel = ""
    /\ initialized = FALSE
    /\ now = 0
    /\ latestPending = FALSE
    /\ olderPending = 0
    /\ latestResponse = Absent
    /\ deletePending = 0
    /\ lastToggle = << >>
    /\ dialogMode = "none"
    /\ dialogResult = Some(FALSE)
    /\ form = buildForm
    /\ isSaving = FALSE
    /\ savePending = 0
    /\ personsPending = FALSE
    /\ orphanSaves = 0

(* ---------------------------------------------------------------------- *)
(* TodoListComponent: handlers                                             *)
(* ---------------------------------------------------------------------- *)
ngOnInit ==
    /\ ~initialized
    /\ initialized' = TRUE
    /\ loadTodos
    /\ lastToggle' = << >>
    /\ UNCHANGED << listVars, deletePending, dialogVars, now >>

\* a getTodos request in flight completes: the most recently issued one
\* (latest) or one issued before it
FetchCompletes(latest) ==
    /\ IF latest THEN latestPending ELSE olderPending > 0
    /\ latestPending' = IF latest THEN FALSE ELSE latestPending
    /\ olderPending' = IF latest THEN olderPending ELSE olderPending - 1

\* FetchOk that ignores the response of any fetch but the most recently issued
FetchOkDropsStale(latest, todos) ==
    /\ FetchCompletes(latest)
    /\ latestResponse' = IF latest THEN Some(todos) ELSE latestResponse
    /\ allTodos' = IF latest THEN todos ELSE allTodos
    /\ UNCHANGED filterVars
    /\ applyFilters(page)
    /\ isLoading' = FALSE
    /\ lastToggle' = << >>
    /\ UNCHANGED << deletePending, dialogVars, initialized, now >>

\* a getTodos request succeeds with body `todos`: the subscriber stores it and
\* refilters, then the finalizer clears the flag
FetchOk(latest, todos) ==
    /\ FetchCompletes(latest)
    /\ latestResponse' = IF latest THEN Some(todos) ELSE latestResponse
    /\ allTodos' = todos
    /\ UNCHANGED filterVars
    /\ applyFilters(page)
    /\ isLoading' = FALSE
    /\ lastToggle' = << >>
    /\ UNCHANGED << deletePending, dialogVars, initialized, now >>

\* FetchErr without the finalizer: the flag is cleared by the subscriber only
FetchErrKeepsLoading(latest) ==
    /\ FetchCompletes(latest)
    /\ lastToggle' = << >>
    /\ UNCHANGED << listVars, isLoading, latestResponse, deletePending, dialogVars,
                    initialized, now >>

\* a getTodos request fails: only the finalizer runs
FetchErr(latest) ==
    /\ FetchCompletes(latest)
    /\ isLoading' = FALSE
    /\ lastToggle' = << >>
    /\ UNCHANGED << listVars, latestResponse, deletePending, dialogVars,
                    initialized, now >>

setViewFilter(filter) ==
    /\ initialized
    /\ viewFilter' = filter
    /\ UNCHANGED << allTodos, currentPriority, currentLabel, searchTerm >>
    /\ applyFilters(1)
    /\ lastToggle' = << >>
    /\ UNCHANGED << fetchVars, deletePending, dialogVars, initialized, now >>

setPriorityFilter(value) ==
    /\ initialized
    /\ currentPriority' = value
    /\ UNCHANGED << allTodos, viewFilter, currentLabel, searchTerm >>
    /\ applyFilters(1)
    /\ lastToggle' = << >>
    /\ UNCHANGED << fetchVars, deletePending, dialogVars, initialized, now >>

setLabelFilter(value) ==
    /\ initialized
    /\ currentLabel' = ToggleLabel(currentLabel, value)
    /\ UNCHANGED << allTodos, viewFilter, currentPriority, searchTerm >>
    /\ applyFilters(1)
    /\ lastToggle' = << value, currentLabel >>
    /\ UNCHANGED << fetchVars, deletePending, dialogVars, initialized, now >>

\* setSearchTerm without the reset of the page
setSearchTermKeepsPage(term) ==
    /\ initialized
    /\ searchTerm' = term
    /\ UNCHANGED << allTodos, viewFilter, currentPriority, currentLabel >>
    /\ applyFilters(page)
    /\ lastToggle' = << >>
    /\ UNCHANGED << fetchVars, deletePending, dialogVars, initialized, now >>

setSearchTerm(term) ==
    /\ initialized
    /\ searchTerm' = term
    /\ UNCHANGED << allTodos, viewFilter, currentPriority, currentLabel >>
    /\ applyFilters(1)
    /\ lastToggle' = << >>
    /\ UNCHANGED << fetchVars, deletePending, dialogVars, initialized, now >>

resetFilters ==
    /\ initialized
    /\ viewFilter' = "all"
    /\ currentPriority' = ""
    /\ currentLabel' = ""
    /\ searchTerm' = << >>
    /\ UNCHANGED allTodos
    /\ applyFilters(1)
    /\ lastToggle' = << >>
    /\ UNCHANGED << fetchVars, deletePending, dialogVars, initialized, now >>

nextPage ==
    /\ initialized
    /\ UNCHANGED << allTodos, filteredTodos, total, filterVars >>
    /\ IF page * PerPage >= total
       THEN UNCHANGED << page, pagedTodos >>
       ELSE updatePagedTodos(page + 1)
    /\ lastToggle' = << >>
    /\ UNCHANGED << fetchVars, deletePending, dialogVars, initialized, now >>

\* previousPage without the guard on the first page
previousPageUnguarded ==
    /\ initialized
    /\ UNCHANGED << allTodos, filteredTodos, total, filterVars >>
    /\ updatePagedTodos(page - 1)
    /\ lastToggle' = << >>
    /\ UNCHANGED << fetchVars, deletePending, dialogVars, initialized, now >>

previousPage ==
    /\ initialized
    /\ UNCHANGED << allTodos, filteredTodos, total, filterVars >>
    /\ IF page = 1
       THEN UNCHANGED << page, pagedTodos >>
       ELSE updatePagedTodos(page - 1)
    /\ lastToggle' = << >>
    /\ UNCHANGED << fetchVars, deletePending, dialogVars, initialized, now >>

\* onDelete that reloads the list as soon as the request is sent
onDeleteEagerReload(confirmed) ==
    /\ initialized
    /\ pagedTodos # << >>
    /\ IF confirmed
       THEN /\ InFlight + 1 < MaxInFlight
            /\ deletePending' = deletePending + 1
            /\ loadTodos
       ELSE UNCHANGED << deletePending, fetchVars >>
    /\ lastToggle' = << >>
    /\ UNCHANGED << listVars, dialogVars, initialized, now >>

\* onDelete(row) on a displayed row: the user accepts or declines the
\* confirmation prompt; accepting sends one deleteTodo request
onDelete(confirmed) ==
    /\ initialized
    /\ pagedTodos # << >>
    /\ IF confirmed
       THEN /\ InFlight < MaxInFlight
            /\ deletePending' = deletePending + 1
       ELSE UNCHANGED deletePending
    /\ lastToggle' = << >>
    /\ UNCHANGED << listVars, fetchVars, dialogVars, initialized, now >>

\* a deleteTodo request succeeds: its subscriber reloads the list
DeleteOk ==
    /\ deletePending > 0
    /\ deletePending' = deletePending - 1
    /\ loadTodos
    /\ lastToggle' = << >>
    /\ UNCHANGED << listVars, dialogVars, initialized, now >>

\* a deleteTodo request fails: the subscriber has no error callback
DeleteErr ==
    /\ deletePending > 0
    /\ deletePending' = deletePending - 1
    /\ lastToggle' = << >>
    /\ UNCHANGED << listVars, fetchVars, dialogVars, initialized, now >>

\* time passes
Tick ==
    /\ now < MaxNow
    /\ now' = now + 1
    /\ lastToggle' = << >>
    /\ UNCHANGED << listVars, fetchVars, deletePending, dialogVars, initialized >>

(* ---------------------------------------------------------------------- *)
(* MatDialog and TodoModalComponent                                        *)
(* ---------------------------------------------------------------------- *)
DialogOpen == dialogMode # "none" /\ dialogResult = Absent

\* patchForm(todo) over the controls of buildForm()
patchForm(todo) ==
    [buildForm EXCEPT
        !.titre = todo.titre,
        !.personId = IF todo.person = Absent THEN Absent ELSE Some(todo.person[1].id),
        !.startDate = todo.startDate,
        !.priority = todo.priority]

\* form.invalid: Validators.required rejects null and the empty string
FormInvalid(f) ==
    \/ f.titre = << >>
    \/ f.personId = Absent
    \/ f.startDate = Absent
    \/ f.priority = ""

\* dialog.open(TodoModalComponent, data) followed by the new component's
\* ngOnInit; the requests of the previous dialog's component stay in flight
OpenDialog(mode, initialForm) ==
    /\ initialized
    /\ ~DialogOpen
    /\ dialogMode' = mode
    /\ dialogResult' = Absent
    /\ form' = initialForm
    /\ isSaving' = FALSE
    /\ savePending' = 0
    /\ orphanSaves' = orphanSaves + savePending
    /\ personsPending' = TRUE
    /\ lastToggle' = << >>
    /\ UNCHANGED << listVars, fetchVars, deletePending, initialized, now >>

onAdd == OpenDialog("create", buildForm)

onEdit(row) ==
    /\ row \in 1..Len(pagedTodos)
    /\ OpenDialog("edit", patchForm(pagedTodos[row]))

\* the getPersons request of the dialog succeeds with the given person ids
PersonsOk(persons) ==
    /\ personsPending
    /\ personsPending' = FALSE
    /\ form' = IF dialogMode = "create" /\ persons # << >> /\ form.personId = Absent
               THEN [form EXCEPT !.personId = Some(persons[1])]
               ELSE form
    /\ lastToggle' = << >>
    /\ UNCHANGED << listVars, fetchVars, deletePending, dialogMode, dialogResult,
                    isSaving, savePending, orphanSaves, initialized, now >>

PersonsErr ==
    /\ personsPending
    /\ personsPending' = FALSE
    /\ lastToggle' = << >>
    /\ UNCHANGED << listVars, fetchVars, deletePending, dialogMode, dialogResult, form,
                    isSaving, savePending, orphanSaves, initialized, now >>

\* the user edits one required control of the open dialog
EditControl(control, value) ==
    /\ DialogOpen
    /\ form' = [form EXCEPT ![control] = value]
    /\ lastToggle' = << >>
    /\ UNCHANGED << listVars, fetchVars, deletePending, dialogMode, dialogResult,
                    isSaving, savePending, personsPending, orphanSaves,
                    initialized, now >>

\* save() without the check of form.invalid
saveUnvalidated ==
    /\ DialogOpen
    /\ InFlight < MaxInFlight
    /\ isSaving' = TRUE
    /\ savePending' = savePending + 1
    /\ UNCHANGED form
    /\ lastToggle' = << >>
    /\ UNCHANGED << listVars, fetchVars, deletePending, dialogMode, dialogResult,
                    personsPending, orphanSaves, initialized, now >>

\* save() of the open dialog: an invalid form is marked touched, a valid one
\* is submitted as one create or update request
save ==
    /\ DialogOpen
    /\ IF FormInvalid(form)
       THEN /\ form' = [form EXCEPT !.touched = TRUE]
            /\ UNCHANGED << isSaving, savePending >>
       ELSE /\ InFlight < MaxInFlight
            /\ isSaving' = TRUE
            /\ savePending' = savePending + 1
            /\ UNCHANGED form
    /\ lastToggle' = << >>
    /\ UNCHANGED << listVars, fetchVars, deletePending, dialogMode, dialogResult,
                    personsPending, orphanSaves, initialized, now >>

\* a create/update request of the dialog succeeds: dialogRef.close(true), whose
\* afterClosed subscriber reloads the list, then the finalizer; closing a
\* dialog that is closed already does nothing
SaveOk ==
    /\ savePending > 0
    /\ savePending' = savePending - 1
    /\ isSaving' = FALSE
    /\ IF dialogResult = Absent
       THEN /\ dialogResult' = Some(TRUE)
            /\ loadTodos
       ELSE UNCHANGED << dialogResult, fetchVars >>
    /\ lastToggle' = << >>
    /\ UNCHANGED << listVars, deletePending, dialogMode, form, personsPending,
                    orphanSaves, initialized, now >>

\* a create/update request of the dialog fails: only the finalizer runs
SaveErr ==
    /\ savePending > 0
    /\ savePending' = savePending - 1
    /\ isSaving' = FALSE
    /\ lastToggle' = << >>
    /\ UNCHANGED << listVars, fetchVars, deletePending, dialogMode, dialogResult, form,
                    personsPending, orphanSaves, initialized, now >>

\* a create/update request of an earlier dialog completes: its dialog is
\* closed and its component is no longer displayed
OrphanSaveCompletes ==
    /\ orphanSaves > 0
    /\ orphanSaves' = orphanSaves - 1
    /\ lastToggle' = << >>
    /\ UNCHANGED << listVars, fetchVars, deletePending, dialogMode, dialogResult, form,
                    isSaving, savePending, personsPending, initialized, now >>

\* cancel() of the open dialog: dialogRef.close(false), no reload
cancel ==
    /\ DialogOpen
    /\ dialogResult' = Some(FALSE)
    /\ lastToggle' = << >>
    /\ UNCHANGED << listVars, fetchVars, deletePending, dialogMode, form, isSaving,
                    savePending, personsPending, orphanSaves, initialized, now >>

(* ---------------------------------------------------------------------- *)
(* Inputs                                                                  *)
(* ---------------------------------------------------------------------- *)
ListSizes == {0, PerPage, PerPage + 1, MaxTodos}

Responses == {Todos(n) : n \in ListSizes}

PriorityInputs == {"", "Difficile", "Moyen"}

LabelInputs == {"", "HTML", "CSS"}

SearchInputs == {<< " " >>, << " ", "j", "E" >>, << "e", "t", " " >>}

(* ---------------------------------------------------------------------- *)
(* The list view on its own                                                *)
(* ---------------------------------------------------------------------- *)
Next ==
    \/ ngOnInit
    \/ \E latest \in BOOLEAN, todos \in Responses : FetchOk(latest, todos)
    \/ \E latest \in BOOLEAN : FetchErr(latest)
    \/ \E filter \in ViewFilters : setViewFilter(filter)
    \/ \E value \in PriorityInputs : setPriorityFilter(value)
    \/ \E value \in LabelInputs : setLabelFilter(value)
    \/ \E term \in SearchInputs : setSearchTerm(term)
    \/ resetFilters
    \/ nextPage
    \/ previousPage
    \/ Tick

Spec == Init /\ [][Next]_vars

(* ---------------------------------------------------------------------- *)
(* Requests, responses and the dialog                                      *)
(* ---------------------------------------------------------------------- *)
AsyncResponses == {<< >>, Todos(1), Todos(PerPage + 1)}

PersonLists == {<< >>, << 1 >>}

ControlInputs ==
    {<< "titre", << >> >>, << "titre", << "T" >> >>,
     << "personId", Absent >>, << "startDate", Some(0) >>}

\* the rows offered to onEdit: the first and the last one displayed
EditRows == {1, Len(pagedTodos)}

NextAsync ==
    \/ ngOnInit
    \/ \E latest \in BOOLEAN, todos \in AsyncResponses : FetchOk(latest, todos)
    \/ \E latest \in BOOLEAN : FetchErr(latest)
    \/ nextPage
    \/ previousPage
    \/ \E confirmed \in BOOLEAN : onDelete(confirmed)
    \/ DeleteOk
    \/ DeleteErr
    \/ onAdd
    \/ \E row \in EditRows : onEdit(row)
    \/ \E persons \in PersonLists : PersonsOk(persons)
    \/ PersonsErr
    \/ \E input \in ControlInputs : EditControl(input[1], input[2])
    \/ save
    \/ SaveOk
    \/ SaveErr
    \/ OrphanSaveCompletes
    \/ cancel

SpecAsync == Init /\ [][NextAsync]_vars

(* ---------------------------------------------------------------------- *)
(* Properties of the list view (checked under Spec)                        *)
(* ---------------------------------------------------------------------- *)
\* the steps that recompute the filtered set: a fetch response and the five
\* filter/search mutations
FetchResponse ==
    \E latest \in BOOLEAN, todos \in Responses \cup AsyncResponses : FetchOk(latest, todos)

FilterMutation ==
    \/ \E filter \in ViewFilters : setViewFilter(filter)
    \/ \E value \in PriorityInputs : setPriorityFilter(value)
    \/ \E value \in LabelInputs : setLabelFilter(value)
    \/ \E term \in SearchInputs : setSearchTerm(term)
    \/ resetFilters

Recompute == FetchResponse \/ FilterMutation

ListViewOperation == Recompute \/ nextPage \/ previousPage

\* text contains term, letter case ignored
ContainsIgnoringCase(text, term) ==
    \E i \in 0..(Len(text) - Len(term)) :
        \A k \in 1..Len(term) : LowerChar(text[i + k]) = LowerChar(term[k])

\* the task satisfies every active filter at instant t, for the trimmed search
\* term `term`
SatisfiesFilters(todo, term, t) ==
    /\ viewFilter = "priority" => todo.priority = "Difficile"
    /\ viewFilter = "today" =>
          todo.startDate # Absent /\ Day(todo.startDate[1]) = Day(t)
    /\ viewFilter = "completed" => todo.endDate # Absent /\ todo.endDate[1] < t
    /\ currentPriority # "" => todo.priority = currentPriority
    /\ currentLabel # "" => \E i \in 1..Len(todo.labels) : todo.labels[i] = currentLabel
    /\ term # << >> =>
          \/ ContainsIgnoringCase(todo.titre, term)
          \/ /\ todo.person # Absent
             /\ todo.person[1].name # Absent
             /\ ContainsIgnoringCase(todo.person[1].name[1], term)

\* filteredTodos is exactly the tasks of allTodos satisfying every active filter
\* at the current instant, in their original order, and total is its length
FilteredExact ==
    LET term == Trim(searchTerm)
        Keep(todo) == SatisfiesFilters(todo, term, now)
        expected == SelectSeq(allTodos, Keep)
    IN  /\ filteredTodos = expected
        /\ total = Len(expected)

\* C1 as claimed: after every list-view operation (fetch response, filter/search
\* mutation, nextPage, previousPage) filteredTodos is exactly the tasks of
\* allTodos that satisfy every active filter, in order, and total is its length.
C1_ExactAfterEveryOperation == [][ListViewOperation => FilteredExact']_vars

\* C1 amended: a fetch response and every filter/search mutation leave
\* filteredTodos exactly the tasks satisfying every active filter at that
\* instant, in order, with total its length; every other step (nextPage,
\* previousPage, the passing of time, ...) leaves filteredTodos, total,
\* allTodos and the filters as they were.
C1_ExactAfterRecompute ==
    [][IF Recompute
       THEN FilteredExact'
       ELSE UNCHANGED << filteredTodos, total, allTodos, filterVars >>]_vars

\* all four filters are active at once and keep some tasks but not all
C1_Witness ==
    /\ viewFilter = "completed"
    /\ currentPriority # ""
    /\ currentLabel # ""
    /\ Trim(searchTerm) # << >>
    /\ total > 0
    /\ total < Len(allTodos)

\* C2: in every reachable state pagedTodos is the contiguous slice of
\* filteredTodos starting at index (page-1)*perPage, of length
\* min(perPage, total - (page-1)*perPage); it is empty when total = 0.
C2_PagedIsSlice ==
    LET start == (page - 1) * PerPage
    IN  /\ Len(pagedTodos) = Min(PerPage, total - start)
        /\ \A k \in 1..Len(pagedTodos) :
              /\ start + k <= Len(filteredTodos)
              /\ pagedTodos[k] = filteredTodos[start + k]
        /\ total = 0 => pagedTodos = << >>

\* sixteen filtered tasks, second page: one task displayed
C2_Witness ==
    /\ total = PerPage + 1
    /\ page = 2
    /\ Len(pagedTodos) = 1

\* C3 as claimed: after every recomputation of the filtered set the page lies
\* in [1, ceil(total/perPage)], for every total including 0.
C3_PageWithinCeil == [][Recompute => page' \in 1..Ceil(total', PerPage)]_vars

\* C3 amended: after every recomputation of the filtered set the page lies in
\* [1, max(1, ceil(total/perPage))]; when total = 0 the page is 1.
C3_PageWithinClamp ==
    [][Recompute => page' \in 1..Max(1, Ceil(total', PerPage))]_vars

\* the response to the most recently issued fetch was an empty list: no task
\* is left and the page is 1
C3_Witness ==
    /\ latestResponse = Some(<< >>)
    /\ allTodos = << >>
    /\ total = 0
    /\ page = 1
    /\ FetchesInFlight = 0

\* C4: previousPage at page 1 and nextPage at the last page (page*perPage >=
\* total) leave page and pagedTodos unchanged; otherwise nextPage increases
\* page by exactly 1 and previousPage decreases it by exactly 1.
C4_PagingSteps ==
    [][/\ nextPage =>
            IF page * PerPage >= total
            THEN UNCHANGED << page, pagedTodos >>
            ELSE page' = page + 1
       /\ previousPage =>
            IF page = 1
            THEN UNCHANGED << page, pagedTodos >>
            ELSE page' = page - 1]_vars

\* the third page of a list of more than two pages: nextPage has moved twice
C4_Witness ==
    /\ page = 3
    /\ total > 2 * PerPage
    /\ pagedTodos # << >>

\* C5: every filter/search mutation leaves page = 1 and pagedTodos equal to the
\* first page of the newly filtered set.
C5_FilterResetsPage ==
    [][FilterMutation =>
          /\ page' = 1
          /\ Len(pagedTodos') = Min(PerPage, Len(filteredTodos'))
          /\ \A k \in 1..Len(pagedTodos') : pagedTodos'[k] = filteredTodos'[k]]_vars

\* a label filter was just set on a list that still spans several pages
C5_Witness ==
    /\ lastToggle # << >>
    /\ currentLabel # ""
    /\ total > PerPage
    /\ page = 1
    /\ Len(pagedTodos) = PerPage

\* the step is the second of two setLabelFilter(L) calls in a row
SecondToggle(L) ==
    /\ lastToggle # << >>
    /\ lastToggle[1] = L
    /\ setLabelFilter(L)

\* C6 as claimed: for every label value L and every starting state, two
\* setLabelFilter(L) calls in a row leave the label filter cleared and the
\* other filters unchanged.
C6_TwiceClears ==
    [][\A L \in LabelInputs :
          SecondToggle(L) =>
             /\ currentLabel' = ""
             /\ UNCHANGED << viewFilter, currentPriority, searchTerm >>]_vars

\* C6 amended: two setLabelFilter(L) calls in a row leave the label filter
\* cleared when L was not the active label before the first call, and leave L
\* active again when it was; every setLabelFilter call leaves the view mode,
\* the priority filter and the search term unchanged.
C6_TwiceRestores ==
    [][\A L \in LabelInputs :
          /\ setLabelFilter(L) =>
                UNCHANGED << viewFilter, currentPriority, searchTerm >>
          /\ SecondToggle(L) =>
                currentLabel' = IF lastToggle[2] = L THEN L ELSE ""]_vars

\* the second of two calls has just cleared a label that the first one set
\* over another active label
C6_Witness ==
    /\ lastToggle = << "HTML", "HTML" >>
    /\ currentLabel = ""
    /\ total > 0

(* ---------------------------------------------------------------------- *)
(* Properties of the requests and the dialog (checked under SpecAsync)     *)
(* ---------------------------------------------------------------------- *)
\* the step delivers the successful response of a create/update request and
\* closes the dialog with true
SaveCloses ==
    /\ SaveOk
    /\ dialogResult = Absent
    /\ dialogResult' = Some(TRUE)

\* the steps after which no refresh may follow: sending a delete, declining the
\* prompt, a failed delete, submitting the form, a failed save, cancelling
NoRefreshStep ==
    \/ \E confirmed \in BOOLEAN : onDelete(confirmed)
    \/ DeleteErr
    \/ save
    \/ SaveErr
    \/ cancel

\* C7: a getTodos request caused by a create, update or delete is issued only
\* by the step that delivers the successful response of that request (one
\* request per response): none is issued while the mutation is in flight, when
\* it fails, when the prompt is declined or when the dialog is cancelled.
C7_RefreshAfterResponse ==
    [][/\ FetchesInFlight' > FetchesInFlight =>
            /\ FetchesInFlight' = FetchesInFlight + 1
            /\ ngOnInit \/ DeleteOk \/ SaveCloses
       /\ NoRefreshStep => UNCHANGED << latestPending, olderPending >>]_vars

\* a save response has closed the dialog with true while the refresh caused by
\* a delete response was in flight: both refreshes are now in flight
C7_Witness ==
    /\ dialogResult = Some(TRUE)
    /\ dialogMode # "none"
    /\ deletePending = 0
    /\ savePending = 0
    /\ FetchesInFlight = 2

\* C8: when a getTodos request completes, successfully or not, isLoading is
\* false right afterwards, and so is isSaving of the dialog when one of its
\* create/update requests completes; a failed getTodos leaves allTodos,
\* filteredTodos, pagedTodos, total and page unchanged.
C8_FlagsClearedOnCompletion ==
    [][/\ FetchesInFlight' < FetchesInFlight => ~isLoading'
       /\ (\E latest \in BOOLEAN : FetchErr(latest)) =>
             UNCHANGED << allTodos, filteredTodos, pagedTodos, total, page >>
       /\ savePending' < savePending => ~isSaving']_vars

\* the most recently issued fetch has failed while the second page of an
\* earlier response was displayed
C8_Witness ==
    /\ initialized
    /\ FetchesInFlight = 0
    /\ latestResponse = Absent
    /\ ~isLoading
    /\ page = 2
    /\ pagedTodos # << >>

\* C9 as claimed: save() with an invalid form sends no request, does not close
\* the dialog and leaves isSaving false; the dialog is closed with true only
\* by a successful response to a submitted request.
C9_InvalidSaveLeavesSavingFalse ==
    [][/\ (FormInvalid(form) /\ save) =>
            /\ UNCHANGED << savePending, dialogResult >>
            /\ ~isSaving'
       /\ (dialogResult # Some(TRUE) /\ dialogResult' = Some(TRUE)) => SaveOk]_vars

\* C9 amended: save() with an invalid form sends no request, does not close the
\* dialog and leaves isSaving as it was (false unless an earlier submitted
\* request is still in flight); the dialog is closed with true only by a
\* successful response to a submitted request.
C9_InvalidSaveSendsNothing ==
    [][/\ (FormInvalid(form) /\ save) =>
            UNCHANGED << savePending, dialogResult, isSaving >>
       /\ (dialogResult # Some(TRUE) /\ dialogResult' = Some(TRUE)) => SaveOk]_vars

\* save() was called on an invalid form: the controls are touched, nothing is
\* in flight and the dialog is still open
C9_Witness ==
    /\ DialogOpen
    /\ form.touched
    /\ FormInvalid(form)
    /\ savePending = 0
    /\ ~isSaving

\* C10 as claimed: once all fetches have completed allTodos equals the response
\* of the most recently issued fetch, and isLoading is true in every state in
\* which a fetch is still in flight.
C10_LatestIssuedWins ==
    /\ (FetchesInFlight = 0 /\ latestResponse # Absent) => allTodos = latestResponse[1]
    /\ FetchesInFlight > 0 => isLoading

\* C10 amended: every successful fetch response replaces allTodos, whatever its
\* issue order, so once all fetches have completed allTodos equals the response
\* that arrived last; isLoading is set when a fetch is issued, cleared when any
\* fetch completes, and otherwise unchanged, so it can be false while other
\* fetches are still in flight.
C10_LastArrivedWins ==
    [][/\ \A latest \in BOOLEAN, todos \in AsyncResponses :
            FetchOk(latest, todos) => allTodos' = todos
       /\ IF FetchesInFlight' > FetchesInFlight
          THEN isLoading' /\ UNCHANGED allTodos
          ELSE IF FetchesInFlight' < FetchesInFlight
               THEN ~isLoading'
               ELSE UNCHANGED << isLoading, allTodos >>]_vars

\* all fetches have completed and the list shows an older fetch's response
C10_Witness ==
    /\ FetchesInFlight = 0
    /\ latestResponse # Absent
    /\ allTodos # latestResponse[1]
    /\ ~isLoading

====
